---- MODULE Spec2Model ----
(***************************************************************************)
(* Model of package fmap's field descriptor (field.go): offset-based       *)
(* Get / GetPtr / Set on instances of the owning struct, and GetTagPath    *)
(* along the parent chain.                                                 *)
(*                                                                         *)
(* Go strings that the code takes apart (tag values, tag paths, struct     *)
(* paths) are sequences of one-character strings.  Instance memory is a    *)
(* function from byte addresses to byte contents; a Go value held in an    *)
(* interface{} is a record [typ, bytes] of its dynamic type and its        *)
(* in-memory representation.                                               *)
(***************************************************************************)
EXTENDS Integers, Sequences, FiniteSets, TLC

VARIABLES
    fields,   \* the descriptors the builder produced: a sequence of field records
    mem,      \* the memory of the live instances: byte address -> byte content
    objs,     \* the live instances: instance -> its base address
    res       \* the call made last, with what it returned

vars == <<fields, mem, objs, res>>

(* ------------------------------ bounds --------------------------------- *)

\* Length of the longest parent chain the builder produces (SpecTag).
MaxDepth == 3

\* Byte contents range over 0..MaxVal; each type has MaxVal + 1 values.
MaxVal == 1

\* The live instances of the owning struct.
Instances == {1, 2}

(* ------------------------- Go types (reflect) -------------------------- *)

\* The kinds Get reads through reflect.NewAt(...).Elem().Interface().
CompositeKinds == {"struct", "slice", "array"}

\* The kinds of the fast path, in the order of the switches of Get and Set.
PrimitiveSeq ==
    <<"string", "int", "int8", "int16", "int32", "int64",
      "uint", "uint8", "uint16", "uint32", "uint64",
      "float32", "float64", "bool">>

PrimitiveKinds == {PrimitiveSeq[i] : i \in 1..Len(PrimitiveSeq)}

Basic(k, sz) ==
    [name |-> k, kind |-> k, hasName |-> TRUE, elem |-> "", under |-> k,
     size |-> sz, align |-> IF sz > 8 THEN 8 ELSE sz, dir |-> "", methods |-> {}]

Composite(n, k, e, sz, al) ==
    [name |-> n, kind |-> k, hasName |-> FALSE, elem |-> e, under |-> n,
     size |-> sz, align |-> al, dir |-> "", methods |-> {}]

\* type n u  (a defined type with the underlying type of u and methods ms)
Defined(n, u, ms) ==
    [u EXCEPT !.name = n, !.hasName = TRUE, !.methods = ms]

\* *e; the method set of a pointer type holds the methods of its element.
PtrTo(e, ms) ==
    [Composite("*" \o e, "ptr", e, 8, 8) EXCEPT !.methods = ms]

BasicTypes ==
    <<Basic("bool", 1), Basic("int8", 1), Basic("uint8", 1),
      Basic("int16", 2), Basic("uint16", 2),
      Basic("int32", 4), Basic("uint32", 4), Basic("float32", 4),
      Basic("int", 8), Basic("int64", 8), Basic("uint", 8), Basic("uint64", 8),
      Basic("float64", 8), Basic("uintptr", 8), Basic("unsafe.Pointer", 8),
      Basic("string", 16), Basic("complex128", 16),
      [Basic("complex64", 8) EXCEPT !.align = 4]>>

LiteralTypes ==
    <<Composite("[]int", "slice", "int", 24, 8),
      Composite("[2]int", "array", "int", 16, 8),
      Composite("struct{X int; Y bool}", "struct", "", 16, 8),
      Composite("map[string]int", "map", "int", 8, 8),
      Composite("func()", "func", "", 8, 8),
      Composite("interface{}", "interface", "", 16, 8),
      [Composite("chan int", "chan", "int", 8, 8) EXCEPT !.dir = "both"],
      [Composite("<-chan int", "chan", "int", 8, 8) EXCEPT !.dir = "recv"]>>

DefinedTypes ==
    <<Defined("MyInt", Basic("int", 8), {"String"}),
      Defined("MyString", Basic("string", 16), {}),
      Defined("IntSlice", Composite("[]int", "slice", "int", 24, 8), {}),
      Defined("S", Composite("struct{X int; Y bool}", "struct", "", 16, 8),
              {"String"}),
      Defined("Stringer",
              Composite("interface{String() string}", "interface", "", 16, 8),
              {"String"})>>

PointerTypes ==
    [i \in 1..Len(PrimitiveSeq) |-> PtrTo(PrimitiveSeq[i], {})]
        \o <<PtrTo("MyInt", {"String"}), PtrTo("S", {"String"}),
             PtrTo("[]int", {}), PtrTo("[2]int", {}),
             PtrTo("map[string]int", {}), PtrTo("*int", {}),
             PtrTo("interface{}", {})>>

\* Every type of the model; a type's position stands for the address of its
\* runtime type descriptor (the type word of an interface value).
TypeSeq == BasicTypes \o LiteralTypes \o DefinedTypes \o PointerTypes

Types == {TypeSeq[i].name : i \in 1..Len(TypeSeq)}

TypeId(n) == CHOOSE i \in 1..Len(TypeSeq) : TypeSeq[i].name = n

TypeOf(n) == TypeSeq[TypeId(n)]

\* reflect.Type.Kind, Elem, Size
Kind(n) == TypeOf(n).kind
Elem(n) == TypeOf(n).elem
Sizeof(n) == TypeOf(n).size

(* --------------------------- strings helpers --------------------------- *)

RECURSIVE Split(_, _)
\* strings.Split(s, sep) for a one-character sep: the segments between the
\* separators, always at least one.
Split(s, sep) ==
    IF \E i \in 1..Len(s) : s[i] = sep
    THEN LET i == CHOOSE j \in 1..Len(s) :
                    s[j] = sep /\ \A k \in 1..(j - 1) : s[k] # sep
         IN  <<SubSeq(s, 1, i - 1)>> \o Split(SubSeq(s, i + 1, Len(s)), sep)
    ELSE <<s>>

\* reflect.StructTag.Lookup on a conventionally formatted tag, held as the
\* sequence of its key:"value" pairs: the value of the first pair with the key.
Lookup(tag, key) ==
    IF \E i \in 1..Len(tag) : tag[i].key = key
    THEN LET i == CHOOSE j \in 1..Len(tag) :
                    tag[j].key = key /\ \A k \in 1..(j - 1) : tag[k].key # key
         IN  [val |-> tag[i].val, ok |-> TRUE]
    ELSE [val |-> <<>>, ok |-> FALSE]

(* ------------------------------ GetTagPath ----------------------------- *)

\* ownTagPath with the split forgotten: the whole tag value.
ownTagPath_NoSplit(f, tag) ==
    LET l == Lookup(f.Tag, tag) IN IF l.ok THEN l.val ELSE <<>>

\* field.go 191-197: the field's own segment, "" if there is none.
ownTagPath(f, tag) ==
    LET l == Lookup(f.Tag, tag)
    IN  IF l.ok
        THEN LET vals == Split(l.val, ",")
             IN  IF Len(vals) > 0 /\ Len(vals[1]) > 0 THEN vals[1] ELSE <<>>
        ELSE <<>>

\* withParentTag with the flag not consulted: a missing parent path is skipped.
withParentTag_FlagIgnored(parentTag, tagPath, ignoreParentTagMissing) ==
    IF parentTag = <<>> THEN tagPath ELSE parentTag \o <<".">> \o tagPath

\* withParentTag with the second test of parentTag dropped: always joins.
withParentTag_AlwaysJoin(parentTag, tagPath, ignoreParentTagMissing) ==
    IF parentTag = <<>> /\ ~ignoreParentTagMissing THEN <<>>
    ELSE parentTag \o <<".">> \o tagPath

\* withParentTag joining leaf first.
withParentTag_Swapped(parentTag, tagPath, ignoreParentTagMissing) ==
    IF parentTag = <<>> /\ ~ignoreParentTagMissing THEN <<>>
    ELSE IF parentTag = <<>> THEN tagPath
    ELSE tagPath \o <<".">> \o parentTag

\* field.go 205-211: the result once the parent's path is known.
withParentTag(parentTag, tagPath, ignoreParentTagMissing) ==
    IF parentTag = <<>> /\ ~ignoreParentTagMissing THEN <<>>
    ELSE IF parentTag = <<>> THEN tagPath
    ELSE parentTag \o <<".">> \o tagPath

RECURSIVE GetTagPath_SkipUntagged(_, _, _, _)
\* GetTagPath where a field without a segment passes its parent's path on.
GetTagPath_SkipUntagged(fs, d, tag, ignoreParentTagMissing) ==
    LET tagPath == ownTagPath(fs[d], tag)
        parentTag == IF fs[d].parent = 0 THEN <<>>
                     ELSE GetTagPath_SkipUntagged(fs, fs[d].parent, tag,
                                                  ignoreParentTagMissing)
    IN  IF tagPath = <<>>
        THEN (IF ignoreParentTagMissing THEN parentTag ELSE <<>>)
        ELSE IF fs[d].parent = 0 THEN tagPath
        ELSE withParentTag(parentTag, tagPath, ignoreParentTagMissing)

RECURSIVE GetTagPath(_, _, _, _)
\* field.go 190-212; fs is the descriptor table, d the receiver's index,
\* parent = 0 is the nil parent.
GetTagPath(fs, d, tag, ignoreParentTagMissing) ==
    LET tagPath == ownTagPath(fs[d], tag)
    IN  IF tagPath = <<>> THEN tagPath
        ELSE IF fs[d].parent = 0 THEN tagPath
        ELSE withParentTag(
                 GetTagPath(fs, fs[d].parent, tag, ignoreParentTagMissing),
                 tagPath, ignoreParentTagMissing)

(* ------------------------- values and memory --------------------------- *)

\* The nil interface value: no dynamic type.
Nil == [typ |-> "nil", bytes |-> <<>>]

\* The values of type t: every byte of the representation is n.
ValuesOf(t) ==
    IF Kind(t) = "interface" THEN {}
    ELSE {[typ |-> t, bytes |-> [i \in 1..Sizeof(t) |-> n]] : n \in 0..MaxVal}

\* *(*T)(ptr): the Sizeof(T) bytes at ptr.
Load(m, ptr, size) == [i \in 1..size |-> m[ptr + i - 1]]

\* *(*T)(ptr) = v: the bytes of v over the Len(bytes) bytes at ptr.
Store(m, ptr, bytes) ==
    [a \in DOMAIN m |->
        IF a >= ptr /\ a < ptr + Len(bytes) THEN bytes[a - ptr + 1] ELSE m[a]]

\* What a call leaves: the memory, the returned value, whether it panicked.
Return(m, v) == [mem |-> m, ret |-> v, panicked |-> FALSE]
Panic(m) == [mem |-> m, ret |-> Nil, panicked |-> TRUE]

(* ------------------------- getPtr, Get, GetPtr ------------------------- *)

\* getPtr with the offset left out: the address of the instance itself.
getPtr_NoOffset(f, obj) == obj

\* field.go 217-221; obj is the instance's address (the interface's data word).
getPtr(f, obj) == obj + f.Offset

\* field.go 228-230, getPtrValue[T](ptr) boxed into the returned interface{}.
getPtrValue(T, m, ptr) ==
    Return(m, [typ |-> T, bytes |-> Load(m, ptr, Sizeof(T))])

\* reflect.NewAt(T, ptr).Elem().Interface(): a copy of the T at ptr.
newAtElemInterface(T, m, ptr) ==
    Return(m, [typ |-> T, bytes |-> Load(m, ptr, Sizeof(T))])

\* field.go 94-96: reflect.NewAt(f.Type, ptr).Interface(), a *T holding ptr.
GetPtr(f, m, obj) ==
    Return(m, [typ |-> "*" \o f.Type, bytes |-> [i \in 1..8 |-> getPtr(f, obj)]])

\* Get with a default case that reads through reflect, as Set's default
\* writes through it, instead of panicking.
Get_DefaultReads(f, m, obj) ==
    LET isPtr == Kind(f.Type) = "ptr"
        kind == IF isPtr THEN Kind(Elem(f.Type)) ELSE Kind(f.Type)
    IN  IF kind \in PrimitiveKinds
        THEN getPtrValue(IF isPtr THEN "*" \o kind ELSE kind, m, getPtr(f, obj))
        ELSE newAtElemInterface(f.Type, m, getPtr(f, obj))

\* field.go 101-188
Get(f, m, obj) ==
    LET ptrToField == getPtr(f, obj)
        isPtr == Kind(f.Type) = "ptr"
        kind == IF isPtr THEN Kind(Elem(f.Type)) ELSE Kind(f.Type)
    IN  IF isPtr
        THEN CASE kind = "string"  -> getPtrValue("*string", m, ptrToField)
               [] kind = "int"     -> getPtrValue("*int", m, ptrToField)
               [] kind = "int8"    -> getPtrValue("*int8", m, ptrToField)
               [] kind = "int16"   -> getPtrValue("*int16", m, ptrToField)
               [] kind = "int32"   -> getPtrValue("*int32", m, ptrToField)
               [] kind = "int64"   -> getPtrValue("*int64", m, ptrToField)
               [] kind = "uint"    -> getPtrValue("*uint", m, ptrToField)
               [] kind = "uint8"   -> getPtrValue("*uint8", m, ptrToField)
               [] kind = "uint16"  -> getPtrValue("*uint16", m, ptrToField)
               [] kind = "uint32"  -> getPtrValue("*uint32", m, ptrToField)
               [] kind = "uint64"  -> getPtrValue("*uint64", m, ptrToField)
               [] kind = "float32" -> getPtrValue("*float32", m, ptrToField)
               [] kind = "float64" -> getPtrValue("*float64", m, ptrToField)
               [] kind = "bool"    -> getPtrValue("*bool", m, ptrToField)
               [] kind = "struct"  -> newAtElemInterface(f.Type, m, ptrToField)
               [] kind = "slice"   -> newAtElemInterface(f.Type, m, ptrToField)
               [] kind = "array"   -> newAtElemInterface(f.Type, m, ptrToField)
               [] OTHER            -> Panic(m)
        ELSE CASE kind = "string"  -> getPtrValue("string", m, ptrToField)
               [] kind = "int"     -> getPtrValue("int", m, ptrToField)
               [] kind = "int8"    -> getPtrValue("int8", m, ptrToField)
               [] kind = "int16"   -> getPtrValue("int16", m, ptrToField)
               [] kind = "int32"   -> getPtrValue("int32", m, ptrToField)
               [] kind = "int64"   -> getPtrValue("int64", m, ptrToField)
               [] kind = "uint"    -> getPtrValue("uint", m, ptrToField)
               [] kind = "uint8"   -> getPtrValue("uint8", m, ptrToField)
               [] kind = "uint16"  -> getPtrValue("uint16", m, ptrToField)
               [] kind = "uint32"  -> getPtrValue("uint32", m, ptrToField)
               [] kind = "uint64"  -> getPtrValue("uint64", m, ptrToField)
               [] kind = "float32" -> getPtrValue("float32", m, ptrToField)
               [] kind = "float64" -> getPtrValue("float64", m, ptrToField)
               [] kind = "bool"    -> getPtrValue("bool", m, ptrToField)
               [] kind = "struct"  -> newAtElemInterface(f.Type, m, ptrToField)
               [] kind = "slice"   -> newAtElemInterface(f.Type, m, ptrToField)
               [] kind = "array"   -> newAtElemInterface(f.Type, m, ptrToField)
               [] OTHER            -> Panic(m)

(* -------------------------------- Set ---------------------------------- *)

\* field.go 223-226, setPtrValue[T](ptr, val): val.(T) panics unless the
\* dynamic type of val is T (a nil val has none); only then is *ptr stored.
setPtrValue(T, m, ptr, val) ==
    IF val.typ = T THEN Return(Store(m, ptr, val.bytes), Nil) ELSE Panic(m)

\* reflect's haveIdenticalUnderlyingType(T, V, true)
haveIdenticalUnderlyingType(T, V) ==
    Kind(T) = Kind(V) /\ TypeOf(T).under = TypeOf(V).under

\* reflect's specialChannelAssignability(T, V): a bidirectional channel value
\* to a channel type of the same element type, one of the two unnamed.
specialChannelAssignability(T, V) ==
    /\ TypeOf(V).dir = "both"
    /\ ~TypeOf(T).hasName \/ ~TypeOf(V).hasName
    /\ Elem(T) = Elem(V)

\* reflect's directlyAssignable(T, V)
directlyAssignable(T, V) ==
    IF T = V THEN TRUE
    ELSE IF (TypeOf(T).hasName /\ TypeOf(V).hasName) \/ Kind(T) # Kind(V) THEN FALSE
    ELSE IF Kind(T) = "chan" /\ specialChannelAssignability(T, V) THEN TRUE
    ELSE haveIdenticalUnderlyingType(T, V)

\* reflect's implements(T, V) for a concrete V
implements(T, V) ==
    Kind(T) = "interface" /\ TypeOf(T).methods \subseteq TypeOf(V).methods

\* The two words of an interface holding val: type word, data word.
ifaceWords(val) ==
    [i \in 1..16 |->
        IF i <= 8 THEN TypeId(val.typ)
        ELSE IF Len(val.bytes) > 0 THEN val.bytes[1] ELSE 0]

\* reflectSet accepting only a value whose dynamic type is T itself.
reflectSet_ExactType(T, m, ptr, val) ==
    IF val.typ = T THEN Return(Store(m, ptr, val.bytes), Nil) ELSE Panic(m)

\* field.go 280-283 and 316-319:
\*   dest := reflect.NewAt(f.Type, ptr).Elem(); dest.Set(reflect.ValueOf(val))
\* ValueOf(nil) is the zero Value, which Set rejects; otherwise Value.assignTo
\* decides, and panics when val's type is not assignable to T.
reflectSet(T, m, ptr, val) ==
    IF val = Nil THEN Panic(m)
    ELSE IF directlyAssignable(T, val.typ) THEN Return(Store(m, ptr, val.bytes), Nil)
    ELSE IF implements(T, val.typ) THEN Return(Store(m, ptr, ifaceWords(val)), Nil)
    ELSE Panic(m)

\* field.go 241-322
Set(f, m, obj, val) ==
    LET ptrToField == getPtr(f, obj)
        isPtr == Kind(f.Type) = "ptr"
        kind == IF isPtr THEN Kind(Elem(f.Type)) ELSE Kind(f.Type)
    IN  IF isPtr
        THEN CASE kind = "string"  -> setPtrValue("*string", m, ptrToField, val)
               [] kind = "int"     -> setPtrValue("*int", m, ptrToField, val)
               [] kind = "int8"    -> setPtrValue("*int8", m, ptrToField, val)
               [] kind = "int16"   -> setPtrValue("*int16", m, ptrToField, val)
               [] kind = "int32"   -> setPtrValue("*int32", m, ptrToField, val)
               [] kind = "int64"   -> setPtrValue("*int64", m, ptrToField, val)
               [] kind = "uint"    -> setPtrValue("*uint", m, ptrToField, val)
               [] kind = "uint8"   -> setPtrValue("*uint8", m, ptrToField, val)
               [] kind = "uint16"  -> setPtrValue("*uint16", m, ptrToField, val)
               [] kind = "uint32"  -> setPtrValue("*uint32", m, ptrToField, val)
               [] kind = "uint64"  -> setPtrValue("*uint64", m, ptrToField, val)
               [] kind = "float32" -> setPtrValue("*float32", m, ptrToField, val)
               [] kind = "float64" -> setPtrValue("*float64", m, ptrToField, val)
               [] kind = "bool"    -> setPtrValue("*bool", m, ptrToField, val)
               [] OTHER            -> reflectSet(f.Type, m, ptrToField, val)
        ELSE CASE kind = "string"  -> setPtrValue("string", m, ptrToField, val)
               [] kind = "int"     -> setPtrValue("int", m, ptrToField, val)
               [] kind = "int8"    -> setPtrValue("int8", m, ptrToField, val)
               [] kind = "int16"   -> setPtrValue("int16", m, ptrToField, val)
               [] kind = "int32"   -> setPtrValue("int32", m, ptrToField, val)
               [] kind = "int64"   -> setPtrValue("int64", m, ptrToField, val)
               [] kind = "uint"    -> setPtrValue("uint", m, ptrToField, val)
               [] kind = "uint8"   -> setPtrValue("uint8", m, ptrToField, val)
               [] kind = "uint16"  -> setPtrValue("uint16", m, ptrToField, val)
               [] kind = "uint32"  -> setPtrValue("uint32", m, ptrToField, val)
               [] kind = "uint64"  -> setPtrValue("uint64", m, ptrToField, val)
               [] kind = "float32" -> setPtrValue("float32", m, ptrToField, val)
               [] kind = "float64" -> setPtrValue("float64", m, ptrToField, val)
               [] kind = "bool"    -> setPtrValue("bool", m, ptrToField, val)
               [] OTHER            -> reflectSet(f.Type, m, ptrToField, val)

(* --------------------- the builder's descriptors ----------------------- *)

\* A field record: the embedded reflect.StructField, structPath and parent
\* (an index into the descriptor table, 0 for nil).  structPath is the
\* parent's structPath + "." + name, or name without a parent.
NewField(name, type, tag, offset, index, parent, parentPath) ==
    [Name |-> name, PkgPath |-> "", Type |-> type, Tag |-> tag,
     Offset |-> offset, Index |-> index, Anonymous |-> FALSE,
     structPath |-> IF parent = 0 THEN name ELSE parentPath \o <<".">> \o name,
     parent |-> parent]

AlignUp(n, a) == ((n + a - 1) \div a) * a

\* The layout of  struct { A int8; F T; B int8 }.
OffsetF(T) == AlignUp(Sizeof("int8"), TypeOf(T).align)
OffsetB(T) == OffsetF(T) + Sizeof(T)
StructSize(T) == AlignUp(OffsetB(T) + Sizeof("int8"), TypeOf(T).align)

\* The descriptor of field F of that struct.
FlatFields(T) ==
    <<NewField(<<"F">>, T, <<[key |-> "json", val |-> <<"f", ",", "o">>]>>,
               OffsetF(T), <<1>>, 0, <<>>)>>

\* Zeroed memory for the instances, size bytes each, one after the other.
ZeroMem(size) == [a \in 0..(Cardinality(Instances) * size - 1) |-> 0]
BaseOf(size) == [i \in Instances |-> (i - 1) * size]

\* Field names by nesting level.
FieldNames == <<<<"a">>, <<"b">>, <<"c">>, <<"d">>, <<"e">>>>

RECURSIVE Chain(_, _)
\* Descriptors of n nested fields, level i + 1 inside the struct of level i,
\* each the first field of its struct; tags[i] is the tag of level i.
Chain(tags, n) ==
    IF tags = <<>> THEN <<>>
    ELSE LET i == Len(tags)
             up == Chain(SubSeq(tags, 1, i - 1), n)
         IN  Append(up,
                    NewField(FieldNames[i], IF i < n THEN "S" ELSE "int", tags[i],
                             0, [j \in 1..i |-> 1], i - 1,
                             IF i = 1 THEN <<>> ELSE up[i - 1].structPath))

\* Tag keys the callers resolve, and the tags the analysed structs carry.
TagKeys == {"json", "db"}

TagVals ==
    {<<>>, <<"a">>, <<"b">>, <<"a", ",", "o">>, <<",", "o">>, <<"b", ",">>}

TagTables ==
    {<<>>}
        \cup {<<[key |-> "json", val |-> v]>> : v \in TagVals}
        \cup {<<[key |-> "db", val |-> <<"d">>], [key |-> "json", val |-> <<"x">>]>>}

\* The values callers pass to Set on a field of type T: nil, the values of T,
\* and one value of each of a few other types.
ProbeTypes ==
    {"int", "MyInt", "int8", "*int", "*MyInt", "string", "MyString",
     "[]int", "IntSlice", "S", "struct{X int; Y bool}", "chan int"}

ArgVals(T) ==
    {Nil} \cup ValuesOf(T)
        \cup {[typ |-> t, bytes |-> [i \in 1..Sizeof(t) |-> MaxVal]] : t \in ProbeTypes}

(* ------------------------------ the calls ------------------------------ *)

NoCall ==
    [op |-> "none", d |-> 0, inst |-> 0, val |-> Nil, tag |-> "",
     ignore |-> FALSE, ret |-> Nil, panicked |-> FALSE]

\* The builder analysed  struct { A int8; F T; B int8 }  for some type T and
\* published the descriptor of F; the instances are zeroed.
Init ==
    /\ \E T \in Types :
          /\ fields = FlatFields(T)
          /\ mem = ZeroMem(StructSize(T))
          /\ objs = BaseOf(StructSize(T))
    /\ res = NoCall

\* The builder analysed MaxDepth levels of nested structs, each level with
\* one of the tags.
InitTag ==
    /\ \E tags \in [1..MaxDepth -> TagTables] : fields = Chain(tags, MaxDepth)
    /\ mem = ZeroMem(Sizeof("S"))
    /\ objs = BaseOf(Sizeof("S"))
    /\ res = NoCall

GetCall(d, i) ==
    LET o == Get(fields[d], mem, objs[i])
    IN  /\ mem' = o.mem
        /\ res' = [NoCall EXCEPT !.op = "Get", !.d = d, !.inst = i,
                                 !.ret = o.ret, !.panicked = o.panicked]
        /\ UNCHANGED <<fields, objs>>

GetPtrCall(d, i) ==
    LET o == GetPtr(fields[d], mem, objs[i])
    IN  /\ mem' = o.mem
        /\ res' = [NoCall EXCEPT !.op = "GetPtr", !.d = d, !.inst = i,
                                 !.ret = o.ret, !.panicked = o.panicked]
        /\ UNCHANGED <<fields, objs>>

SetCall(d, i, val) ==
    LET o == Set(fields[d], mem, objs[i], val)
    IN  /\ mem' = o.mem
        /\ res' = [NoCall EXCEPT !.op = "Set", !.d = d, !.inst = i, !.val = val,
                                 !.panicked = o.panicked]
        /\ UNCHANGED <<fields, objs>>

GetTagPathCall(d, tag, ignoreParentTagMissing) ==
    /\ res' = [NoCall EXCEPT !.op = "GetTagPath", !.d = d, !.tag = tag,
                             !.ignore = ignoreParentTagMissing,
                             !.ret = GetTagPath(fields, d, tag, ignoreParentTagMissing)]
    /\ UNCHANGED <<fields, mem, objs>>

Next ==
    \/ \E d \in DOMAIN fields, i \in DOMAIN objs : GetCall(d, i)
    \/ \E d \in DOMAIN fields, i \in DOMAIN objs : GetPtrCall(d, i)
    \/ \E d \in DOMAIN fields, i \in DOMAIN objs :
          \E val \in ArgVals(fields[d].Type) : SetCall(d, i, val)
    \/ \E d \in DOMAIN fields, tag \in TagKeys, ign \in BOOLEAN :
          GetTagPathCall(d, tag, ign)

Spec == Init /\ [][Next]_vars

\* Tag resolution alone, over every tagging of the parent chain.
NextTag ==
    \E d \in DOMAIN fields, tag \in TagKeys, ign \in BOOLEAN :
        GetTagPathCall(d, tag, ign)

SpecTag == InitTag /\ [][NextTag]_vars

(* ===================== properties of GetTagPath ======================== *)
(* The definitions from here on state what is checked of the calls; they    *)
(* read the descriptors and the memory directly and use none of the code's  *)
(* operators unless a property names a call's result.                       *)

\* The value of the tag for key as the struct declares it, and whether there
\* is one.
HasTag(d, key) == \E i \in 1..Len(fields[d].Tag) : fields[d].Tag[i].key = key
RawTag(d, key) ==
    fields[d].Tag[CHOOSE i \in 1..Len(fields[d].Tag) : fields[d].Tag[i].key = key]
        .val

\* The first comma-delimited segment of v: its longest comma-free prefix.
FirstSegment(v) ==
    SubSeq(v, 1, CHOOSE n \in 0..Len(v) :
                     /\ \A j \in 1..n : v[j] # ","
                     /\ n = Len(v) \/ v[n + 1] = ",")

\* The segment of descriptor d under key; <<>> when absent or empty.
Segment(d, key) == IF HasTag(d, key) THEN FirstSegment(RawTag(d, key)) ELSE <<>>

RECURSIVE PathTo(_)
\* The descriptors from the root of d's parent chain down to d.
PathTo(d) ==
    IF fields[d].parent = 0 THEN <<d>> ELSE Append(PathTo(fields[d].parent), d)

Ancestors(d) == {PathTo(d)[i] : i \in 1..(Len(PathTo(d)) - 1)}

RECURSIVE JoinSegments(_, _)
\* The segments of the descriptors ds under key, joined by ".".
JoinSegments(ds, key) ==
    IF Len(ds) = 1 THEN Segment(ds[1], key)
    ELSE JoinSegments(SubSeq(ds, 1, Len(ds) - 1), key)
             \o <<".">> \o Segment(ds[Len(ds)], key)

\* d and its nearest ancestors, as far up as all of them carry a segment.
TaggedRun(d, key) ==
    LET p == PathTo(d)
        k == CHOOSE j \in 1..Len(p) :
                 /\ \A i \in j..Len(p) : Segment(p[i], key) # <<>>
                 /\ j = 1 \/ Segment(p[j - 1], key) = <<>>
    IN  SubSeq(p, k, Len(p))

IsTagCall == res.op = "GetTagPath"

\* C1: a descriptor whose own tag for the key is absent, or has an empty first
\* segment, resolves to "" for either flag and whatever its ancestors carry.
C1_OwnTagMissingGivesEmpty ==
    IsTagCall /\ Segment(res.d, res.tag) = <<>> => res.ret = <<>>

\* C1 witness: the tag is present with an empty first segment, every ancestor
\* is tagged, the flag is true, and the call returned "".
C1_Witness ==
    /\ IsTagCall /\ res.ignore /\ res.ret = <<>>
    /\ HasTag(res.d, res.tag) /\ RawTag(res.d, res.tag) # <<>>
    /\ Segment(res.d, res.tag) = <<>>
    /\ Ancestors(res.d) # {}
    /\ \A a \in Ancestors(res.d) : Segment(a, res.tag) # <<>>

\* C2: with the flag false, an ancestor without a segment anywhere up the
\* chain makes the result "".
C2_MissingAncestorInvalidates ==
    IsTagCall /\ ~res.ignore
        /\ (\E a \in Ancestors(res.d) : Segment(a, res.tag) = <<>>)
    => res.ret = <<>>

\* C2 witness: leaf and parent tagged, only the grandparent untagged.
C2_Witness ==
    /\ IsTagCall /\ ~res.ignore /\ res.ret = <<>>
    /\ Len(PathTo(res.d)) >= 3
    /\ Segment(res.d, res.tag) # <<>>
    /\ Segment(fields[res.d].parent, res.tag) # <<>>
    /\ Segment(fields[fields[res.d].parent].parent, res.tag) = <<>>

\* C3: with the flag true, a tagged descriptor whose parent resolves to ""
\* resolves to its own segment alone.
C3_IgnoreGivesOwnSegment ==
    IsTagCall /\ res.ignore /\ Segment(res.d, res.tag) # <<>>
        /\ fields[res.d].parent # 0
        /\ GetTagPath(fields, fields[res.d].parent, res.tag, TRUE) = <<>>
    => res.ret = Segment(res.d, res.tag)

\* C3 witness: tagged leaf "a,o" under an untagged parent, flag true, result "a".
C3_Witness ==
    /\ IsTagCall /\ res.ignore /\ fields[res.d].parent # 0
    /\ HasTag(res.d, res.tag) /\ RawTag(res.d, res.tag) = <<"a", ",", "o">>
    /\ Segment(fields[res.d].parent, res.tag) = <<>>
    /\ res.ret = <<"a">>

\* C4: when the descriptor and all its ancestors carry a segment, the result
\* is the segments joined by "." from the root down, for either flag; without
\* a parent it is the own segment.
C4_AllTaggedJoined ==
    IsTagCall /\ (\A a \in Ancestors(res.d) \cup {res.d} : Segment(a, res.tag) # <<>>)
    => /\ res.ret = JoinSegments(PathTo(res.d), res.tag)
       /\ res.ret = GetTagPath(fields, res.d, res.tag, ~res.ignore)
       /\ fields[res.d].parent = 0 => res.ret = Segment(res.d, res.tag)

\* C4 witness: grandparent "b", parent "x", leaf "a" resolve to "b.x.a".
C4_Witness ==
    /\ IsTagCall /\ res.ret = <<"b", ".", "x", ".", "a">>
    /\ Len(PathTo(res.d)) = 3

\* C9: with the flag true and a tagged descriptor, the result joins the
\* segments of the descriptor and of its tagged ancestors up to, and without,
\* the nearest ancestor that has none; nothing above that one appears.
C9_StopsAtNearestUntagged ==
    IsTagCall /\ res.ignore /\ Segment(res.d, res.tag) # <<>>
    => res.ret = JoinSegments(TaggedRun(res.d, res.tag), res.tag)

\* C9 witness: leaf "a", untagged parent, grandparent "b": the result is "a".
C9_Witness ==
    /\ IsTagCall /\ res.ignore /\ Len(PathTo(res.d)) >= 3
    /\ Segment(res.d, res.tag) = <<"a">>
    /\ Segment(fields[res.d].parent, res.tag) = <<>>
    /\ Segment(fields[fields[res.d].parent].parent, res.tag) = <<"b">>
    /\ res.ret = <<"a">>

(* ===================== properties of Get and Set ======================= *)

\* The kind Get and Set dispatch on: the element's kind for a pointer field.
DerefKind(T) == IF Kind(T) = "ptr" THEN Kind(Elem(T)) ELSE Kind(T)

GetSupported(T) == DerefKind(T) \in PrimitiveKinds \cup CompositeKinds
OnFastPath(T) == DerefKind(T) \in PrimitiveKinds

\* The addresses of descriptor d's field in instance i.
FieldBytes(d, i) ==
    {objs[i] + fields[d].Offset + k : k \in 0..(Sizeof(fields[d].Type) - 1)}

\* Go's assignability of a value of concrete type V to a variable of type T.
Assignable(V, T) ==
    \/ V = T
    \/ /\ Kind(V) = Kind(T)
       /\ TypeOf(V).under = TypeOf(T).under
       /\ ~(TypeOf(V).hasName /\ TypeOf(T).hasName)
    \/ /\ Kind(V) = "chan" /\ Kind(T) = "chan"
       /\ TypeOf(V).dir = "both" /\ Elem(V) = Elem(T)
       /\ ~(TypeOf(V).hasName /\ TypeOf(T).hasName)
    \/ /\ Kind(T) = "interface"
       /\ TypeOf(T).methods \subseteq TypeOf(V).methods

IsSetCall == res.op = "Set"
IsGetCall == res.op = "Get"
CallType == fields[res.d].Type

\* C5: on a field of a kind Get supports, Set of a value of exactly the
\* field's declared type succeeds and a following Get returns that value.
C5_RoundTrip ==
    IsSetCall /\ GetSupported(CallType) /\ res.val.typ = CallType
    => /\ ~res.panicked
       /\ Get(fields[res.d], mem, objs[res.inst]) = Return(mem, res.val)

\* C6: Get panics exactly when the field's kind, after dereferencing one
\* pointer level, is outside the primitive kinds, struct, slice and array;
\* otherwise it returns a value of the field's size.
C6_GetPanicsIffUnsupported ==
    IsGetCall
    => /\ res.panicked <=> ~GetSupported(CallType)
       /\ ~res.panicked =>
              res.ret # Nil /\ Len(res.ret.bytes) = Sizeof(CallType)

\* C6 witness: Get on a pointer-to-pointer field panicked.
C6_Witness ==
    IsGetCall /\ res.panicked /\ CallType = "**int"

C8_Frame ==
    [][/\ fields' = fields /\ objs' = objs /\ DOMAIN mem' = DOMAIN mem
       /\ res'.op \in {"Get", "GetPtr", "GetTagPath"} => mem' = mem
       /\ res'.op = "Set" /\ ~res'.panicked =>
              \A a \in DOMAIN mem :
                  a \notin FieldBytes(res'.d, res'.inst) => mem'[a] = mem[a]]_vars

\* C8 witness: a Set succeeded on one instance after the field of another
\* instance had been set; that other field still holds what was set, and
\* every byte outside the two fields is still zero.
C8_Witness ==
    /\ IsSetCall /\ ~res.panicked
    /\ \A a \in FieldBytes(res.d, res.inst) : mem[a] = MaxVal
    /\ \E j \in Instances \ {res.inst} :
          /\ \A a \in FieldBytes(res.d, j) : mem[a] = MaxVal
          /\ \A a \in DOMAIN mem :
                a \notin FieldBytes(res.d, res.inst) \cup FieldBytes(res.d, j)
                    => mem[a] = 0

\* C10: on the fast path a value whose dynamic type is not exactly the
\* field's declared type, nil included, makes Set panic.
C10_FastPathMismatchPanics ==
    IsSetCall /\ OnFastPath(CallType) /\ res.val.typ # CallType => res.panicked

====
